---- MODULE Spec2Model ----
(***************************************************************************)
(* Model of the exhibition-backend request-integrity layer: the privileged *)
(* metadata mutation of routes/projects.ts with its middleware chain, the  *)
(* chain ownership verifier of services/contractVerifier.ts, the CSRF      *)
(* guard of middleware/csrf.ts, the metadata store of                      *)
(* models/ProjectMetadata.ts, the session routes of routes/auth.ts and the *)
(* RPC passthrough of routes/rpc.ts as server.ts and rpc-server.ts mount   *)
(* it.                                                                     *)
(*                                                                         *)
(* Strings that the code inspects character by character (addresses, CSRF  *)
(* tokens) are sequences of one-character strings; JavaScript null and     *)
(* undefined are the value Null.                                           *)
(***************************************************************************)
EXTENDS Integers, Sequences, FiniteSets, TLC

VARIABLES
    chain,      \* contract state: project number -> projectOwner of getProjectDetails
    config,     \* config.chain.rpcUrl / CONTRACT_ADDRESS: set or not (fixed at start-up)
    contract,   \* contractVerifier.ts module variable `contract` (with `provider`)
    store,      \* project_metadata collection: projectId -> record or NoRecord
    apiHits,    \* hit counter of apiLimiter for the client's key in the current window
    req,        \* the HTTP request being served and its position in the middleware chain
    call,       \* a direct call of an exported function and its result
    now,        \* the server clock, in ticks
    env,        \* process.env as config/env.ts parses it: WALLET_WHITELIST, NODE_ENV
    authHits,   \* hit counter of authLimiter for the client's key in the current window
    rpcHits,    \* hit counter of rpcLimiter for the client's key, on each server
    jar,        \* the auth_token cookie the client holds
    web,        \* a request to /api/auth or /api/rpc and its position in its chain
    csrfJar,    \* the csrf_token cookie the client holds
    bindings,   \* how many times getContract has constructed provider and contract
    callers,    \* concurrent calls of the verifier's exported functions
    prev,       \* an earlier request that went through verifyCsrfToken, for comparison
    conn        \* config/database.ts: client, db, connectionPromise, and the calls in progress

\* the state of the metadata mutation and of the verifier
projectVars ==
    <<chain, config, contract, bindings, store, apiHits, req, call, callers, prev, conn>>

\* the state of the session routes and of the RPC passthrough
sessionVars == <<now, env, authHits, rpcHits, jar, web, csrfJar>>

vars == <<projectVars, sessionVars>>

----------------------------------------------------------------------------
(* Bounds of the model *)

\* ceiling of the general API rate-limit policy, scaled down
ApiMax == 2

\* ceiling of the auth rate-limit policy, scaled down
AuthMax == 2

\* ceiling of the RPC-proxy rate-limit policy, scaled down
RpcMax == 2

\* last tick of the clock
MaxTime == 2

\* JWT_EXPIRES_IN in ticks of the clock, scaled down
TokenTtl == 1

----------------------------------------------------------------------------
(* JavaScript values *)

Null == <<"null">>

\* !v for a string-or-null value
Falsy(v) == v = Null \/ v = <<>>

\* the letters of the model's alphabet, lower case to upper case
UpperOf == [c \in {"a", "b", "t"} |-> IF c = "a" THEN "A" ELSE IF c = "b" THEN "B" ELSE "T"]

ToLowerChar(c) ==
    IF \E l \in DOMAIN UpperOf : UpperOf[l] = c
    THEN CHOOSE l \in DOMAIN UpperOf : UpperOf[l] = c
    ELSE c

ToUpperChar(c) == IF c \in DOMAIN UpperOf THEN UpperOf[c] ELSE c

\* String.prototype.toLowerCase
toLowerCase(s) == [i \in DOMAIN s |-> ToLowerChar(s[i])]

toUpperCase(s) == [i \in DOMAIN s |-> ToUpperChar(s[i])]

HexChars == {"0", "a", "b", "A", "B"}

ZERO_ADDRESS == <<"0", "0">>

\* stand-in for the keccak nibble that decides the case of letter i (EIP-55)
HashBit(s, i) == (i + Cardinality({j \in DOMAIN s : s[j] = "b"})) % 2 = 1

\* ethers.getAddress of a well-formed lower-case address: its checksum form
getAddress(s) == [i \in DOMAIN s |-> IF HashBit(s, i) THEN ToUpperChar(s[i]) ELSE s[i]]

\* ethers.isAddress: hex digits of the address length; a mixed-case
\* value must carry the right checksum
isAddress(v) ==
    /\ v # Null
    /\ Len(v) = Len(ZERO_ADDRESS)
    /\ \A i \in DOMAIN v : v[i] \in HexChars
    /\ \/ v = toLowerCase(v)
       \/ v = toUpperCase(v)
       \/ v = getAddress(toLowerCase(v))

----------------------------------------------------------------------------
(* Value sets *)

\* the two wallets, as the session token carries them (lower-cased at issue)
WalletA == <<"a", "b">>
WalletB == <<"b", "a">>
SessionAddresses == {WalletA, WalletB}

\* a project id of more than MAX_PROJECT_ID_LENGTH characters
LongId == "11111111111111111111111111111111111111111111111111111111111111111111111111111111111111111111111111111"

\* project ids of requests: two numbers, a non-number, an over-long one
ProjectIds == {"1", "2", "x", LongId}

ChainIds == {1, 2}

\* owners the contract can hold: none (zero address) or a wallet, which
\* ethers decodes to its checksum form
ChainOwners == {ZERO_ADDRESS, getAddress(WalletA), getAddress(WalletB)}

\* what a direct caller of the verifier may see as projectOwner, the
\* defensive cases of the code included
RawOwners == ChainOwners \cup {Null, <<>>, <<"g", "0">>, <<"a">>, <<"A", "B">>, <<"a", "b">>, <<"A", "b">>}

CsrfValues == {Null, <<>>, <<"t">>, <<"T">>}

NoRecord == [present |-> FALSE, ownerAddress |-> <<>>, createdAt |-> 0, lastUpdated |-> 0]

MAX_PROJECT_ID_LENGTH == 100

----------------------------------------------------------------------------
(* services/contractVerifier.ts *)

\* BigInt(projectId) succeeds
BigIntOk(projectId) == projectId \in {"", "1", "2", LongId}

\* BigInt(projectId); 0 stands for every number the contract has no project for
BigInt(projectId) == IF projectId = "1" THEN 1 ELSE IF projectId = "2" THEN 2 ELSE 0

\* getContract() returns a binding rather than throwing
getContractOk == contract \/ (config.rpcUrl /\ config.contractAddress)

\* mutant: the cached binding is never found
getContractCached_Never == FALSE

\* `if (!contract)` of getContract finds the binding of an earlier call
getContractCached == contract

\* getContract() constructs a provider and a contract binding
getContractBuilds == ~getContractCached /\ config.rpcUrl /\ config.contractAddress

\* mutant: the owner seen by the request's first read is kept and reused
getProjectDetails_Cached(n) ==
    IF req.existsOwner # Null THEN req.existsOwner
    ELSE IF n \in DOMAIN chain THEN chain[n] ELSE ZERO_ADDRESS

\* projectOwner of contract.getProjectDetails(n)[0]: an unknown project is all zeroes
getProjectDetails(n) == IF n \in DOMAIN chain THEN chain[n] ELSE ZERO_ADDRESS

\* verifyProjectOwner up to its await: TRUE when the contract call is issued
verifyProjectOwnerCalls(projectId, walletAddress) ==
    /\ ~(projectId = "" \/ Falsy(walletAddress))
    /\ BigIntOk(projectId)
    /\ getContractOk

\* mutant: the owner is compared as returned, without lower-casing it
verifyProjectOwnerResult_RawOwner(walletAddress, rpcOk, projectOwner) ==
    IF ~rpcOk THEN FALSE
    ELSE IF Falsy(projectOwner) THEN FALSE
    ELSE IF ~isAddress(projectOwner) THEN FALSE
    ELSE toLowerCase(walletAddress) = projectOwner

\* verifyProjectOwner after its await: rpcOk is FALSE when the call rejected
verifyProjectOwnerResult(walletAddress, rpcOk, projectOwner) ==
    IF ~rpcOk THEN FALSE
    ELSE IF Falsy(projectOwner) THEN FALSE
    ELSE IF ~isAddress(projectOwner) THEN FALSE
    ELSE toLowerCase(walletAddress) = toLowerCase(projectOwner)

verifyProjectOwner(projectId, walletAddress, rpcOk, projectOwner) ==
    /\ verifyProjectOwnerCalls(projectId, walletAddress)
    /\ verifyProjectOwnerResult(walletAddress, rpcOk, projectOwner)

\* getProjectOwner up to its await
getProjectOwnerCalls(projectId) ==
    /\ projectId # ""
    /\ BigIntOk(projectId)
    /\ getContractOk

\* getProjectOwner after its await
getProjectOwnerResult(rpcOk, projectOwner) ==
    IF ~rpcOk THEN Null
    ELSE IF Falsy(projectOwner) \/ ~isAddress(projectOwner) THEN Null
    ELSE toLowerCase(projectOwner)

getProjectOwner(projectId, rpcOk, projectOwner) ==
    IF getProjectOwnerCalls(projectId) THEN getProjectOwnerResult(rpcOk, projectOwner)
    ELSE Null

\* mutant: the zero address is taken for an owner
projectExistsResult_NoZeroCheck(owner) == ~Falsy(owner)

\* projectExists, given what its getProjectOwner returned
projectExistsResult(owner) == ~(Falsy(owner) \/ owner = ZERO_ADDRESS)

projectExists(projectId, rpcOk, projectOwner) ==
    projectExistsResult(getProjectOwner(projectId, rpcOk, projectOwner))

----------------------------------------------------------------------------
(* middleware/csrf.ts *)

\* mutant: only GET skips the check
verifyCsrfToken_GetOnly(method, cookieToken, headerToken) ==
    IF method \in {"GET"} THEN "next"
    ELSE IF Falsy(cookieToken) \/ Falsy(headerToken) THEN "CSRF token missing"
    ELSE IF cookieToken # headerToken THEN "CSRF token mismatch"
    ELSE "next"

\* mutant: the two tokens are compared after lower-casing
verifyCsrfToken_Normalised(method, cookieToken, headerToken) ==
    IF method \in {"GET", "HEAD", "OPTIONS"} THEN "next"
    ELSE IF Falsy(cookieToken) \/ Falsy(headerToken) THEN "CSRF token missing"
    ELSE IF toLowerCase(cookieToken) # toLowerCase(headerToken) THEN "CSRF token mismatch"
    ELSE "next"

\* verifyCsrfToken: "next", or the error of its 403
verifyCsrfToken(method, cookieToken, headerToken) ==
    IF method \in {"GET", "HEAD", "OPTIONS"} THEN "next"
    ELSE IF Falsy(cookieToken) \/ Falsy(headerToken) THEN "CSRF token missing"
    ELSE IF cookieToken # headerToken THEN "CSRF token mismatch"
    ELSE "next"

----------------------------------------------------------------------------
(* models/ProjectMetadata.ts *)

\* mutant: createdAt is set by every upsert
upsert_CreatedEachTime(doc, ownerAddress, time) ==
    [present |-> TRUE, ownerAddress |-> toLowerCase(ownerAddress),
     createdAt |-> time, lastUpdated |-> time]

\* the document findOneAndUpdate leaves for projectId, given the document doc
\* it found and the Date.now() of the call: $set stamps ownerAddress and
\* lastUpdated, $setOnInsert sets createdAt when there was no document
upsert(doc, ownerAddress, time) ==
    [present |-> TRUE, ownerAddress |-> toLowerCase(ownerAddress),
     createdAt |-> IF doc.present THEN doc.createdAt ELSE time,
     lastUpdated |-> time]

\* what deleteOne leaves for projectId
delete(doc) == NoRecord

----------------------------------------------------------------------------
(* The request in flight *)

NoToken == [kind |-> "none", address |-> Null, expiresAt |-> 0]
BadToken == [kind |-> "invalid", address |-> Null, expiresAt |-> 0]

\* mutant: the address goes into the token as it was passed
generateToken_RawAddress(address) ==
    [kind |-> "valid", address |-> address, expiresAt |-> now + TokenTtl]

\* jwtService.generateToken: a signed token carrying the lower-cased address
\* and the expiry JWT_EXPIRES_IN from now
generateToken(address) ==
    [kind |-> "valid", address |-> toLowerCase(address), expiresAt |-> now + TokenTtl]

\* what verifyToken returns for a token it rejects (null: no claim field)
NoClaim == [address |-> Null, exp |-> 0]

\* mutant: the expiry is not looked at
verifyToken_NoExpiry(token) ==
    IF token.kind = "valid"
    THEN [address |-> token.address, exp |-> token.expiresAt]
    ELSE NoClaim

\* jwtService.verifyToken: the claim of a token signed by the server and not
\* past its expiry, NoClaim for anything else
verifyToken(token) ==
    IF token.kind = "valid" /\ ~(now > token.expiresAt)
    THEN [address |-> token.address, exp |-> token.expiresAt]
    ELSE NoClaim

\* a token the server issued to wallet a at start-up time
SessionToken(a) == [kind |-> "valid", address |-> a, expiresAt |-> TokenTtl]

\* auth_token cookies a request may carry: none, one that fails
\* verification (forged, malformed or expired), or one the server issued
Tokens == {NoToken, BadToken} \cup {SessionToken(a) : a \in SessionAddresses}

\* request bodies: the ownerAddress field a client may assert, and whether
\* twitter, website and overview pass the handler's field validation
Bodies == [ownerAddress : {Null, WalletA, WalletB}, fieldsValid : BOOLEAN]

Idle ==
    [pc |-> "idle", method |-> "POST", token |-> NoToken, cookieToken |-> Null,
     headerToken |-> Null, id |-> "1", ownerAddress |-> Null, fieldsValid |-> TRUE,
     user |-> Null, consumed |-> {}, reads |-> 0, existsOwner |-> Null,
     rpcOk |-> FALSE, projectOwner |-> Null, isOwner |-> FALSE,
     handled |-> FALSE, status |-> 0, error |-> "", wrote |-> FALSE]

\* res.status(code).json({ error }) ends the request
Respond(r, code, err) == [r EXCEPT !.pc = "done", !.status = code, !.error = err]

\* a client sends POST /api/projects/:id/metadata. The fields of the request
\* are drawn where the code first reads them: the session cookie here, the CSRF
\* pair in verifyCsrfToken, the path parameter and the body in the handler.
Arrive(token) ==
    /\ req.pc \in {"idle", "done"}
    /\ apiHits <= ApiMax
    /\ req' = [Idle EXCEPT !.pc = "apiLimiter", !.token = token]
    /\ UNCHANGED <<chain, config, contract, bindings, store, apiHits, call, callers, prev, conn, sessionVars>>

\* app.use('/api/projects', apiLimiter, projectRoutes): fixed-window count by client key
ApiLimiter ==
    /\ req.pc = "apiLimiter"
    /\ apiHits' = apiHits + 1
    /\ req' = IF apiHits + 1 > ApiMax
              THEN Respond([req EXCEPT !.consumed = @ \cup {"api"}], 429, "Too many requests")
              ELSE [req EXCEPT !.pc = "authenticateJWT", !.consumed = @ \cup {"api"}]
    /\ UNCHANGED <<chain, config, contract, bindings, store, call, callers, prev, conn, sessionVars>>

\* the rate-limit window of the client's key elapses
WindowElapses ==
    /\ apiHits > 0
    /\ apiHits' = 0
    /\ UNCHANGED <<chain, config, contract, bindings, store, req, call, callers, prev, conn, sessionVars>>

\* authenticateJWT: a verified token gives req.user, anything else ends in 401
AuthenticateJWT ==
    /\ req.pc = "authenticateJWT"
    /\ req' = IF verifyToken(req.token) # NoClaim
              THEN [req EXCEPT !.pc = "verifyCsrfToken",
                               !.user = verifyToken(req.token).address]
              ELSE Respond(req, 401, "Unauthorized")
    /\ UNCHANGED <<chain, config, contract, bindings, store, apiHits, call, callers, prev, conn, sessionVars>>

\* mutant: a token passes only with the session it is bound to, the lower
\* case one with the first wallet and the upper case one with the second
VerifyCsrfToken_SessionBound(cookieToken, headerToken) ==
    /\ req.pc = "verifyCsrfToken"
    /\ LET verdict == IF cookieToken = (IF req.user = WalletA THEN <<"t">> ELSE <<"T">>)
                      THEN verifyCsrfToken(req.method, cookieToken, headerToken)
                      ELSE "CSRF token mismatch"
           seen == [req EXCEPT !.cookieToken = cookieToken, !.headerToken = headerToken]
       IN req' = IF verdict = "next" THEN [seen EXCEPT !.pc = "handler"]
                 ELSE Respond(seen, 403, verdict)
    /\ UNCHANGED <<chain, config, contract, bindings, store, apiHits, call, callers, prev, conn, sessionVars>>

\* verifyCsrfToken as the route's second middleware
VerifyCsrfToken(cookieToken, headerToken) ==
    /\ req.pc = "verifyCsrfToken"
    /\ LET verdict == verifyCsrfToken(req.method, cookieToken, headerToken)
           seen == [req EXCEPT !.cookieToken = cookieToken, !.headerToken = headerToken]
       IN req' = IF verdict = "next" THEN [seen EXCEPT !.pc = "handler"]
                 ELSE Respond(seen, 403, verdict)
    /\ UNCHANGED <<chain, config, contract, bindings, store, apiHits, call, callers, prev, conn, sessionVars>>

\* the handler up to `await projectExists(projectId)`
Handler(id, body) ==
    /\ req.pc = "handler"
    /\ LET seen == [req EXCEPT !.id = id, !.ownerAddress = body.ownerAddress,
                               !.fieldsValid = body.fieldsValid, !.handled = TRUE]
       IN IF Len(id) > MAX_PROJECT_ID_LENGTH
          THEN /\ req' = Respond(seen, 400, "Invalid project ID")
               /\ UNCHANGED <<contract, bindings>>
          ELSE IF Falsy(req.user)
          THEN /\ req' = Respond(seen, 401, "Unauthorized")
               /\ UNCHANGED <<contract, bindings>>
          ELSE IF getProjectOwnerCalls(id)
          THEN /\ req' = [seen EXCEPT !.pc = "existsRead", !.reads = @ + 1]
               /\ contract' = TRUE
               /\ bindings' = IF getContractBuilds THEN bindings + 1 ELSE bindings
          ELSE /\ req' = Respond(seen, 404, "Project not found on blockchain")
               /\ UNCHANGED <<contract, bindings>>
    /\ UNCHANGED <<chain, config, store, apiHits, call, callers, prev, conn, sessionVars>>

\* the contract call of projectExists settles; on success the handler goes on
\* to `await verifyProjectOwner(projectId, walletAddress)`
ExistsRead(rpcOk) ==
    /\ req.pc = "existsRead"
    /\ LET owner == getProjectOwnerResult(rpcOk, getProjectDetails(BigInt(req.id)))
           seen == [req EXCEPT !.existsOwner = owner]
       IN IF ~projectExistsResult(owner)
          THEN req' = Respond(seen, 404, "Project not found on blockchain")
          ELSE IF verifyProjectOwnerCalls(req.id, req.user)
          THEN req' = [seen EXCEPT !.pc = "ownerRead", !.reads = @ + 1]
          ELSE req' = Respond(seen, 403, "Only project owner can update metadata")
    /\ UNCHANGED <<chain, config, contract, bindings, store, apiHits, call, callers, prev, conn, sessionVars>>

\* mutant: the handler goes on to the write whatever verifyProjectOwner said
OwnershipGate_Skipped(walletAddress, ownerAddress, isOwner) == TRUE

\* mutant: the session address is compared with the body's ownerAddress
OwnershipGate_BodyOwner(walletAddress, ownerAddress, isOwner) ==
    toLowerCase(walletAddress) = toLowerCase(ownerAddress)

\* the ownership gate of the handler: TRUE lets the request on to the write
OwnershipGate(walletAddress, ownerAddress, isOwner) == isOwner

\* the contract call of verifyProjectOwner settles; the owner goes on through
\* field validation to `await ProjectMetadataModel.upsert(...)`
OwnerRead(rpcOk) ==
    /\ req.pc = "ownerRead"
    /\ LET projectOwner == getProjectDetails(BigInt(req.id))
           isOwner == verifyProjectOwnerResult(req.user, rpcOk, projectOwner)
           seen == [req EXCEPT !.rpcOk = rpcOk,
                               !.projectOwner = IF rpcOk THEN projectOwner ELSE Null,
                               !.isOwner = isOwner]
       IN IF ~OwnershipGate(req.user, req.ownerAddress, isOwner)
          THEN req' = Respond(seen, 403, "Only project owner can update metadata")
          ELSE IF ~req.fieldsValid
          THEN req' = Respond(seen, 400, "Invalid field")
          ELSE req' = [seen EXCEPT !.pc = "upsert"]
    /\ UNCHANGED <<chain, config, contract, bindings, store, apiHits, call, callers, prev, conn, sessionVars>>

\* the owner address the handler passes to upsert
StampedAddress(r) == r.user

\* mutant: the document is written also when the catch answers 500
Upsert_WriteThenThrow(dbOk) ==
    /\ req.pc = "upsert"
    /\ store' = [store EXCEPT ![req.id] = upsert(store[req.id], StampedAddress(req), now)]
    /\ req' = IF dbOk THEN [Respond(req, 200, "") EXCEPT !.wrote = TRUE]
              ELSE Respond(req, 500, "Failed to save metadata")
    /\ UNCHANGED <<chain, config, contract, bindings, apiHits, call, callers, prev, conn, sessionVars>>

\* ProjectMetadataModel.upsert settles: the document is written, or the
\* database throws and the catch answers 500
Upsert(dbOk) ==
    /\ req.pc = "upsert"
    /\ IF dbOk
       THEN /\ store' = [store EXCEPT ![req.id] = upsert(store[req.id], StampedAddress(req), now)]
            /\ req' = [Respond(req, 200, "") EXCEPT !.wrote = TRUE]
       ELSE /\ req' = Respond(req, 500, "Failed to save metadata")
            /\ UNCHANGED store
    /\ UNCHANGED <<chain, config, contract, bindings, apiHits, call, callers, prev, conn, sessionVars>>

\* the contract records a new owner for a project (creation or transfer)
Transfer(n, owner) ==
    /\ chain[n] # owner
    /\ chain' = [chain EXCEPT ![n] = owner]
    /\ UNCHANGED <<config, contract, bindings, store, apiHits, req, call, callers, prev, conn, sessionVars>>

----------------------------------------------------------------------------
(* config/env.ts *)

\* String.prototype.trim: the blanks at both ends go
RECURSIVE trim(_)
trim(s) ==
    IF s # <<>> /\ Head(s) = " " THEN trim(Tail(s))
    ELSE IF s # <<>> /\ s[Len(s)] = " " THEN trim(SubSeq(s, 1, Len(s) - 1))
    ELSE s

\* mutant: the empty entries stay in the list
walletWhitelist_Unfiltered(entries) ==
    [i \in DOMAIN entries |-> toLowerCase(trim(entries[i]))]

\* config.auth.walletWhitelist: WALLET_WHITELIST cut at its commas (entries),
\* every entry trimmed and lower-cased, the empty ones dropped
walletWhitelist(entries) ==
    SelectSeq([i \in DOMAIN entries |-> toLowerCase(trim(entries[i]))],
              LAMBDA entry : entry # <<>>)

\* Array.prototype.includes
includes(list, v) == \E i \in DOMAIN list : list[i] = v

\* WALLET_WHITELIST as split(',') cuts it: unset or empty (one empty entry);
\* wallet A in checksum spelling after a blank, with a trailing comma; wallet B
WhitelistEnvs == {<< <<>> >>, << <<" ", "a", "B">>, <<>> >>, << WalletB >>}

Envs == [WALLET_WHITELIST : WhitelistEnvs, NODE_ENV : {"development", "production"}]

\* the environment of a development server without an allow-list
DefaultEnv == [WALLET_WHITELIST |-> << <<>> >>, NODE_ENV |-> "development"]

\* config.server.isProduction
isProduction == env.NODE_ENV = "production"

----------------------------------------------------------------------------
(* services/walletVerifier.ts *)

\* config.auth.signatureMessage, the challenge GET /api/auth/message serves
ExpectedMessage == "Sign in to Exhibition"

\* any other text a wallet may be asked to sign
OtherMessage == "Some other text"

getExpectedMessage == ExpectedMessage

\* the signature field of a login body: absent, not a signature, or the
\* signature of a wallet over a message
MissingSignature == [kind |-> "missing", signer |-> Null, message |-> ""]
MalformedSignature == [kind |-> "malformed", signer |-> Null, message |-> ""]
Signature(signer, message) == [kind |-> "signed", signer |-> signer, message |-> message]

\* the address recovery yields for a message the signer did not sign
StrangerAddress == <<"b", "b">>

\* signature recovery: the signer's checksum address when message is what was
\* signed, an unrelated address for any other message, null when recovery fails
recoverAddress(message, signature) ==
    IF signature.kind # "signed" THEN Null
    ELSE IF signature.message = message THEN getAddress(signature.signer)
    ELSE StrangerAddress

Verdict(isValid, recoveredAddress, error) ==
    [isValid |-> isValid, recoveredAddress |-> recoveredAddress, error |-> error]

\* the result before the verifier has run
NoVerification == Verdict(FALSE, Null, "")

\* mutant: the signer is recovered over the message the client sent
verifyWalletSignature_ClientMessage(address, signature, message) ==
    LET recovered == recoverAddress(message, signature)
        whitelist == walletWhitelist(env.WALLET_WHITELIST)
    IN IF recovered = Null THEN Verdict(FALSE, Null, "Invalid signature")
       ELSE IF toLowerCase(recovered) # toLowerCase(address)
       THEN Verdict(FALSE, recovered, "Address mismatch")
       ELSE IF whitelist # <<>> /\ ~includes(whitelist, toLowerCase(recovered))
       THEN Verdict(FALSE, recovered, "Address not whitelisted")
       ELSE Verdict(TRUE, recovered, "")

\* verifyWalletSignature: the message must be the server's challenge, the
\* address recovered over the challenge must be the claimed one up to case,
\* and a configured allow-list must hold it
verifyWalletSignature(address, signature, message) ==
    LET recovered == recoverAddress(ExpectedMessage, signature)
        whitelist == walletWhitelist(env.WALLET_WHITELIST)
    IN IF message # ExpectedMessage THEN Verdict(FALSE, Null, "Invalid message")
       ELSE IF recovered = Null THEN Verdict(FALSE, Null, "Invalid signature")
       ELSE IF toLowerCase(recovered) # toLowerCase(address)
       THEN Verdict(FALSE, recovered, "Address mismatch")
       ELSE IF whitelist # <<>> /\ ~includes(whitelist, toLowerCase(recovered))
       THEN Verdict(FALSE, recovered, "Address not whitelisted")
       ELSE Verdict(TRUE, recovered, "")

----------------------------------------------------------------------------
(* Cookies *)

\* 24 * 60 * 60 * 1000
DAY_MS == 24 * 60 * 60 * 1000

\* mutant: the session cookie is readable by scripts
SessionCookie_Readable(token) ==
    [name |-> "auth_token", value |-> token, httpOnly |-> FALSE,
     secure |-> isProduction,
     sameSite |-> IF isProduction THEN "none" ELSE "strict",
     domain |-> IF isProduction THEN ".exhibitiondefi.xyz" ELSE "",
     path |-> "/", expires |-> "maxAge", maxAge |-> DAY_MS]

\* res.cookie('auth_token', token, {...}) of the login handler
SessionCookie(token) ==
    [name |-> "auth_token", value |-> token, httpOnly |-> TRUE,
     secure |-> isProduction,
     sameSite |-> IF isProduction THEN "none" ELSE "strict",
     domain |-> IF isProduction THEN ".exhibitiondefi.xyz" ELSE "",
     path |-> "/", expires |-> "maxAge", maxAge |-> DAY_MS]

\* res.cookie(CSRF_COOKIE_NAME, token, {...}) of setCsrfToken
CsrfCookie(token) ==
    [name |-> "csrf_token", value |-> token, httpOnly |-> FALSE,
     secure |-> isProduction, sameSite |-> "strict", domain |-> "",
     path |-> "/", expires |-> "maxAge", maxAge |-> DAY_MS]

\* res.clearCookie(name, { domain, secure, sameSite }) of the logout handler:
\* express adds path '/' and an expiry in the past
ClearCookie(name) ==
    [name |-> name, value |-> <<>>, httpOnly |-> FALSE,
     secure |-> isProduction,
     sameSite |-> IF isProduction THEN "none" ELSE "strict",
     domain |-> IF isProduction THEN ".exhibitiondefi.xyz" ELSE "",
     path |-> "/", expires |-> "past", maxAge |-> 0]

\* the client holds no cookie of a name
NoCookie == [value |-> Null, domain |-> "", path |-> "/"]

\* the client's cookie store takes a Set-Cookie for a name it holds as held:
\* a cookie is the one of its name, domain and path, so an expired Set-Cookie
\* removes the held cookie only when domain and path are the held ones
StoreCookie(held, c) ==
    IF c.expires = "past"
    THEN IF held.value # Null /\ held.domain = c.domain /\ held.path = c.path
         THEN NoCookie ELSE held
    ELSE [value |-> c.value, domain |-> c.domain, path |-> c.path]

\* values generateCsrfToken may return
MintValues == {<<"t">>, <<"T">>}

----------------------------------------------------------------------------
(* Requests to /api/auth and /api/rpc *)

\* the main server (server.ts) and the isolated RPC server (rpc-server.ts)
Servers == {"main", "rpc"}

\* the routes of routes/auth.ts and routes/rpc.ts with the method each is bound to
RouteMethod ==
    [verify |-> "POST", logout |-> "POST", me |-> "GET", message |-> "GET", rpc |-> "POST"]

AuthRoutes == {"verify", "logout", "me", "message"}

LoginBody(address, signature, message) ==
    [address |-> address, signature |-> signature, message |-> message]

NoBody == LoginBody(Null, MissingSignature, "")

\* login bodies: each field missing in turn; wallet A and wallet B signing
\* the challenge; wallet A claimed in upper case; wallet B claiming A's
\* signature; a malformed signature; wallet A signing another text, sent
\* with that text and sent with the challenge
LoginBodies ==
    {LoginBody(Null, Signature(WalletA, ExpectedMessage), ExpectedMessage),
     LoginBody(WalletA, MissingSignature, ExpectedMessage),
     LoginBody(WalletA, Signature(WalletA, ExpectedMessage), ""),
     LoginBody(WalletA, Signature(WalletA, ExpectedMessage), ExpectedMessage),
     LoginBody(WalletB, Signature(WalletB, ExpectedMessage), ExpectedMessage),
     LoginBody(<<"A", "B">>, Signature(WalletA, ExpectedMessage), ExpectedMessage),
     LoginBody(WalletB, Signature(WalletA, ExpectedMessage), ExpectedMessage),
     LoginBody(WalletA, MalformedSignature, ExpectedMessage),
     LoginBody(WalletA, Signature(WalletA, OtherMessage), OtherMessage),
     LoginBody(WalletA, Signature(WalletA, OtherMessage), ExpectedMessage)}

\* the data member of a JSON response
NoData == [address |-> Null, csrfToken |-> Null, expiresAt |-> 0, message |-> ""]

IdleWeb ==
    [pc |-> "idle", server |-> "main", route |-> "message", method |-> "GET",
     cookieToken |-> Null, token |-> NoToken, body |-> NoBody, trace |-> <<>>,
     verification |-> NoVerification, issued |-> NoToken, setCookies |-> <<>>,
     forwarded |-> FALSE, status |-> 0, error |-> "", message |-> "",
     data |-> NoData]

\* the middleware or handler named step runs for the request
Step(w, step) == [w EXCEPT !.trace = Append(@, step)]

\* res.status(code).json({ error, message }) ends the request
Reply(w, code, err, message) ==
    [w EXCEPT !.pc = "done", !.status = code, !.error = err, !.message = message]

\* res.json({ success: true, data }) ends the request
ReplyData(w, data) == [w EXCEPT !.pc = "done", !.status = 200, !.data = data]

\* a client sends a request to the main server or to the RPC server; the
\* cookies and the body are drawn where the code first reads them
ArriveWeb(server, route, method) ==
    /\ web.pc \in {"idle", "done"}
    /\ server = "rpc" => route = "rpc"
    /\ route \in AuthRoutes => method = RouteMethod[route] /\ authHits <= AuthMax
    /\ route = "rpc" => rpcHits[server] <= RpcMax
    /\ web' = [IdleWeb EXCEPT !.server = server, !.route = route, !.method = method,
                              !.pc = IF server = "main" THEN "ensureCsrfToken"
                                     ELSE "rpcLimiter"]
    /\ UNCHANGED <<projectVars, now, env, authHits, rpcHits, jar, csrfJar>>

\* mutant: a token is minted for every request
ensureCsrfTokenMints_Always(cookieToken) == TRUE

\* `if (!req.cookies?.[CSRF_COOKIE_NAME])` of ensureCsrfToken
ensureCsrfTokenMints(cookieToken) == Falsy(cookieToken)

\* app.use(ensureCsrfToken) of server.ts: a request without a csrf_token
\* cookie gets one minted, then the routes follow
EnsureCsrfToken(cookieToken, minted) ==
    /\ web.pc = "ensureCsrfToken"
    /\ LET seen == Step([web EXCEPT !.cookieToken = cookieToken], "ensureCsrfToken")
           set == IF ensureCsrfTokenMints(cookieToken)
                  THEN [seen EXCEPT !.setCookies = Append(@, CsrfCookie(minted))]
                  ELSE seen
       IN web' = [set EXCEPT !.pc = IF web.route = "rpc" THEN "rpcRoutes"
                                    ELSE "authLimiter"]
    /\ csrfJar' = IF ensureCsrfTokenMints(cookieToken) THEN StoreCookie(csrfJar, CsrfCookie(minted))
                  ELSE csrfJar
    /\ UNCHANGED <<projectVars, now, env, authHits, rpcHits, jar>>

\* authLimiter: fixed-window count by client key, allowed up to the ceiling
authLimiterAllows(hits) == hits <= AuthMax

\* app.use('/api/auth', authLimiter, authRoutes) of server.ts
AuthLimiter ==
    /\ web.pc = "authLimiter"
    /\ authHits' = authHits + 1
    /\ web' = IF authLimiterAllows(authHits + 1)
              THEN [Step(web, "authLimiter") EXCEPT
                       !.pc = IF web.route = "verify" THEN "verifyLimiter" ELSE web.route]
              ELSE Reply(Step(web, "authLimiter"), 429, "Too many requests", "")
    /\ UNCHANGED <<projectVars, now, env, rpcHits, jar, csrfJar>>

\* router.post('/verify', authLimiter, ...): the same limiter once more
VerifyLimiter ==
    /\ web.pc = "verifyLimiter"
    /\ authHits' = authHits + 1
    /\ web' = IF authLimiterAllows(authHits + 1)
              THEN [Step(web, "authLimiter") EXCEPT !.pc = "verify"]
              ELSE Reply(Step(web, "authLimiter"), 429, "Too many requests", "")
    /\ UNCHANGED <<projectVars, now, env, rpcHits, jar, csrfJar>>

\* the rate-limit window of the client's auth key elapses
AuthWindowElapses ==
    /\ authHits > 0
    /\ authHits' = 0
    /\ UNCHANGED <<projectVars, now, env, rpcHits, jar, web, csrfJar>>

\* mutant: the handler goes on to the token whatever the verifier said
LoginGate_Skipped(verification) == TRUE

\* `if (!verification.isValid)` of the login handler: TRUE lets the request
\* on to the token
LoginGate(verification) == verification.isValid

\* the handler of POST /api/auth/verify; the client keeps the session cookie
\* of a successful login
Verify(body, minted) ==
    /\ web.pc = "verify"
    /\ LET seen == Step([web EXCEPT !.body = body], "handler")
           verification ==
               verifyWalletSignature(body.address, body.signature, body.message)
           checked == Step([seen EXCEPT !.verification = verification],
                           "verifyWalletSignature")
           token == generateToken(body.address)
           issued == Step(Step([checked EXCEPT !.issued = token], "generateToken"),
                          "setCsrfToken")
       IN IF Falsy(body.address) \/ body.signature.kind = "missing" \/ body.message = ""
          THEN /\ web' = Reply(seen, 400, "Missing required fields",
                               "Address, signature, and message are required")
               /\ UNCHANGED <<jar, csrfJar>>
          ELSE IF ~LoginGate(verification)
          THEN /\ web' = Reply(checked, 401, "Verification failed",
                               IF verification.error # "" THEN verification.error
                               ELSE "Invalid signature")
               /\ UNCHANGED <<jar, csrfJar>>
          ELSE /\ web' = ReplyData(
                            [issued EXCEPT !.setCookies =
                                @ \o <<SessionCookie(token), CsrfCookie(minted)>>],
                            [NoData EXCEPT !.address = verification.recoveredAddress,
                                           !.csrfToken = minted])
               /\ jar' = token
               /\ csrfJar' = StoreCookie(csrfJar, CsrfCookie(minted))
    /\ UNCHANGED <<projectVars, now, env, authHits, rpcHits>>

\* the handler of POST /api/auth/logout: both cookies are cleared with the
\* domain, secure and sameSite of the session cookie, and the client drops the
\* cookies the clearing Set-Cookie headers name
Logout ==
    /\ web.pc = "logout"
    /\ web' = [ReplyData(Step(web, "handler"), NoData) EXCEPT
                  !.message = "Logged out successfully",
                  !.setCookies = @ \o <<ClearCookie("auth_token"), ClearCookie("csrf_token")>>]
    /\ jar' = IF /\ ClearCookie("auth_token").domain = SessionCookie(jar).domain
                 /\ ClearCookie("auth_token").path = SessionCookie(jar).path
              THEN NoToken ELSE jar
    /\ csrfJar' = StoreCookie(csrfJar, ClearCookie("csrf_token"))
    /\ UNCHANGED <<projectVars, now, env, authHits, rpcHits>>

\* the handler of GET /api/auth/me
Me(token) ==
    /\ web.pc = "me"
    /\ LET seen == Step([web EXCEPT !.token = token], "handler")
           decoded == verifyToken(token)
       IN web' = IF token.kind = "none"
                 THEN Reply(seen, 401, "Not authenticated", "")
                 ELSE IF decoded = NoClaim
                 THEN Reply(seen, 401, "Invalid token", "")
                 ELSE ReplyData(seen, [NoData EXCEPT !.address = decoded.address,
                                                     !.expiresAt = decoded.exp * 1000])
    /\ UNCHANGED <<projectVars, now, env, authHits, rpcHits, jar, csrfJar>>

\* the handler of GET /api/auth/message
Message ==
    /\ web.pc = "message"
    /\ web' = ReplyData(Step(web, "handler"),
                        [NoData EXCEPT !.message = getExpectedMessage])
    /\ UNCHANGED <<projectVars, now, env, authHits, rpcHits, jar, csrfJar>>

\* the router of routes/rpc.ts: POST / is handled up to the fetch, any other
\* request falls through to what is mounted behind the router
RpcRoutes ==
    /\ web.pc = "rpcRoutes"
    /\ web' = IF web.method # "POST"
              THEN [Step(web, "rpcRoutes") EXCEPT
                       !.pc = IF web.server = "main" THEN "rpcLimiter" ELSE "notFound"]
              ELSE IF ~config.rpcUrl
              THEN Reply(Step(web, "handler"), 500, "RPC_URL not configured in backend", "")
              ELSE [Step(web, "handler") EXCEPT !.pc = "fetch", !.forwarded = TRUE]
    /\ UNCHANGED <<projectVars, now, env, authHits, rpcHits, jar, csrfJar>>

\* rpcLimiter: fixed-window count by client key; it stands behind the router
\* in server.ts and before it in rpc-server.ts
RpcLimiter ==
    /\ web.pc = "rpcLimiter"
    /\ rpcHits' = [rpcHits EXCEPT ![web.server] = @ + 1]
    /\ web' = IF rpcHits[web.server] + 1 > RpcMax
              THEN Reply(Step(web, "rpcLimiter"), 429, "Too many requests", "")
              ELSE [Step(web, "rpcLimiter") EXCEPT
                       !.pc = IF web.server = "main" THEN "notFound" ELSE "rpcRoutes"]
    /\ UNCHANGED <<projectVars, now, env, authHits, jar, csrfJar>>

\* the rate-limit window of the client's RPC key elapses on a server
RpcWindowElapses(server) ==
    /\ rpcHits[server] > 0
    /\ rpcHits' = [rpcHits EXCEPT ![server] = 0]
    /\ UNCHANGED <<projectVars, now, env, authHits, jar, web, csrfJar>>

\* statuses the chain endpoint may answer with
UpstreamStatuses == {200, 429, 502}

\* the fetch settles: the upstream status and body are passed on, or fetch
\* (or response.json) throws and the catch answers 500 with error.message
Fetch(upstream) ==
    /\ web.pc = "fetch"
    /\ web' = IF upstream \in UpstreamStatuses
              THEN [web EXCEPT !.pc = "done", !.status = upstream]
              ELSE Reply(web, 500, "Failed to contact blockchain RPC endpoint",
                         "fetch failed")
    /\ UNCHANGED <<projectVars, now, env, authHits, rpcHits, jar, csrfJar>>

\* no route took the request: notFoundHandler, or the default of express
NotFound ==
    /\ web.pc = "notFound"
    /\ web' = Reply(Step(web, "notFound"), 404, "Not found", "")
    /\ UNCHANGED <<projectVars, now, env, authHits, rpcHits, jar, csrfJar>>

\* the clock advances
Tick ==
    /\ now < MaxTime
    /\ now' = now + 1
    /\ UNCHANGED <<projectVars, env, authHits, rpcHits, jar, web, csrfJar>>

\* the client has taken the response
ResponseTaken ==
    /\ web.pc = "done"
    /\ web' = IdleWeb
    /\ UNCHANGED <<projectVars, now, env, authHits, rpcHits, jar, csrfJar>>

\* the client has taken the response of a metadata mutation
MutationResponseTaken ==
    /\ req.pc = "done"
    /\ req' = Idle
    /\ UNCHANGED <<chain, config, contract, bindings, store, apiHits, call, callers, prev, conn, sessionVars>>

\* statuses verifyCsrfToken and the metadata handler may answer with
ChainStatuses == {200, 400, 403, 404, 500}

\* a metadata mutation past authenticateJWT is answered by the rest of its
\* chain, which Spec follows step by step
RestOfChain(code) ==
    /\ req.pc = "verifyCsrfToken"
    /\ req' = Respond([req EXCEPT !.handled = TRUE], code, "")
    /\ UNCHANGED <<chain, config, contract, bindings, store, apiHits, call, callers, prev, conn, sessionVars>>

----------------------------------------------------------------------------
(* config/database.ts *)

\* how many clients the callers may construct in a run
MaxAttempts == 2

\* how many calls of connectDatabase may be in progress at once
MaxProcs == 2

Attempts == 1 .. MaxAttempts

Procs == 1 .. MaxProcs

\* the two files of the repository that define connectDatabase: the one with
\* connectionPromise and the one without
Variants == {"singleFlight", "plain"}

\* a caller outside any call
IdleProc == [pc |-> "idle", attempt |-> 0, handle |-> 0]

\* the module before any call: client, db and connectionPromise are null. A
\* client and the connection attempt that constructed it bear the same
\* number, a db handle bears the number of the client it was obtained from,
\* connectionPromise the number of the attempt it belongs to; 0 is null.
IdleConn(variant) ==
    [variant |-> variant, client |-> 0, db |-> 0, connectionPromise |-> 0,
     started |-> 0,
     attempts |-> [a \in Attempts |-> "none"],
     result |-> [a \in Attempts |-> 0],
     clients |-> [a \in Attempts |-> "none"],
     procs |-> [p \in Procs |-> IdleProc],
     closer |-> "idle"]

\* `if (db && client) return db`, or `if (db) return db` of the file without
\* connectionPromise
connectionCached ==
    IF conn.variant = "singleFlight" THEN conn.db # 0 /\ conn.client # 0
    ELSE conn.db # 0

\* `if (connectionPromise) return connectionPromise`
attemptInProgress == conn.variant = "singleFlight" /\ conn.connectionPromise # 0

\* mutant: the catch leaves the module state as it is
catchResets_Nothing(c) == c

\* the catch of connectDatabase: connectionPromise, client and db are reset
\* where the file has the three assignments
catchResets(c) ==
    IF c.variant = "singleFlight"
    THEN [c EXCEPT !.connectionPromise = 0, !.client = 0, !.db = 0]
    ELSE c

\* a call of connectDatabase up to its return or its first await
ConnectDatabase(p) ==
    /\ conn.procs[p].pc = "idle"
    /\ IF connectionCached
       THEN conn' = [conn EXCEPT !.procs[p] = [pc |-> "got", attempt |-> 0,
                                                handle |-> conn.db]]
       ELSE IF attemptInProgress
       THEN conn' = [conn EXCEPT !.procs[p] = [pc |-> "waiting",
                                                attempt |-> conn.connectionPromise,
                                                handle |-> 0]]
       ELSE /\ conn.started < MaxAttempts
            /\ LET a == conn.started + 1
               IN conn' = [conn EXCEPT
                              !.started = a,
                              !.client = a,
                              !.connectionPromise =
                                  IF conn.variant = "singleFlight" THEN a ELSE 0,
                              !.attempts[a] = "connecting",
                              !.clients[a] = "new",
                              !.procs[p] = [pc |-> "waiting", attempt |-> a, handle |-> 0]]
    /\ UNCHANGED <<chain, config, contract, bindings, store, apiHits, req, call, callers, prev,
                   sessionVars>>

\* `await client.connect()` of attempt a settles. On success the attempt goes
\* on to `db = client.db(...)`, which reads the module variable client as it
\* is by then: null makes the line throw into the catch. On failure the catch
\* runs.
ConnectSettles(a, ok) ==
    /\ conn.attempts[a] = "connecting"
    /\ LET connected == [conn EXCEPT !.clients[a] =
                            IF @ # "new" THEN @
                            ELSE IF ok THEN "connected" ELSE "failed"]
       IN IF ok /\ conn.client # 0
          THEN conn' = [connected EXCEPT !.db = conn.client,
                                         !.attempts[a] = "ok",
                                         !.result[a] = conn.client]
          ELSE conn' = [catchResets(connected) EXCEPT !.attempts[a] = "failed"]
    /\ UNCHANGED <<chain, config, contract, bindings, store, apiHits, req, call, callers, prev,
                   sessionVars>>

\* the promise a caller awaits has settled: the caller receives the handle or
\* the error
ConnectReturns(p) ==
    /\ conn.procs[p].pc = "waiting"
    /\ conn.attempts[conn.procs[p].attempt] \in {"ok", "failed"}
    /\ conn' = [conn EXCEPT !.procs[p] =
                  IF conn.attempts[conn.procs[p].attempt] = "ok"
                  THEN [@ EXCEPT !.pc = "got", !.handle = conn.result[conn.procs[p].attempt]]
                  ELSE [@ EXCEPT !.pc = "error"]]
    /\ UNCHANGED <<chain, config, contract, bindings, store, apiHits, req, call, callers, prev,
                   sessionVars>>

\* the caller goes on with what it received
ProcDone(p) ==
    /\ conn.procs[p].pc \in {"got", "error"}
    /\ conn' = [conn EXCEPT !.procs[p] = IdleProc]
    /\ UNCHANGED <<chain, config, contract, bindings, store, apiHits, req, call, callers, prev,
                   sessionVars>>

\* closeDatabase up to `await client.close()`
CloseDatabase ==
    /\ conn.closer = "idle"
    /\ conn.client # 0
    /\ conn' = [conn EXCEPT !.closer = "closing", !.clients[conn.client] = "closed"]
    /\ UNCHANGED <<chain, config, contract, bindings, store, apiHits, req, call, callers, prev,
                   sessionVars>>

\* client.close() settles: the file with connectionPromise resets client, db
\* and connectionPromise in a finally; the other resets client and db after
\* the await, which a throw of close() skips
CloseSettles(ok) ==
    /\ conn.closer = "closing"
    /\ conn' = IF conn.variant = "singleFlight"
               THEN [conn EXCEPT !.closer = "idle", !.client = 0, !.db = 0,
                                 !.connectionPromise = 0]
               ELSE IF ok
               THEN [conn EXCEPT !.closer = "idle", !.client = 0, !.db = 0]
               ELSE [conn EXCEPT !.closer = "idle"]
    /\ UNCHANGED <<chain, config, contract, bindings, store, apiHits, req, call, callers, prev,
                   sessionVars>>

----------------------------------------------------------------------------
(* Concurrent calls of the verifier *)

\* how many calls of the exported functions may be in progress at once
MaxCallers == 2

Callers == 1 .. MaxCallers

\* a caller outside any call; binding numbers the constructions of
\* getContract, 0 for none
IdleCaller == [pc |-> "idle", binding |-> 0]

\* a call of verifyProjectOwner, getProjectOwner or projectExists on valid
\* arguments runs up to its await: getContract() hands it the cached binding
\* or constructs one, or throws and the catch returns false/null
CallerGetsContract(c) ==
    /\ callers[c].pc = "idle"
    /\ IF getContractOk
       THEN /\ contract' = TRUE
            /\ bindings' = IF getContractBuilds THEN bindings + 1 ELSE bindings
            /\ callers' = [callers EXCEPT ![c] = [pc |-> "await", binding |-> bindings']]
       ELSE /\ callers' = [callers EXCEPT ![c] = [pc |-> "returned", binding |-> 0]]
            /\ UNCHANGED <<contract, bindings>>
    /\ UNCHANGED <<chain, config, store, apiHits, req, call, prev, conn, sessionVars>>

\* the contract call of a caller settles, with a result or a rejection
CallerSettles(c) ==
    /\ callers[c].pc = "await"
    /\ callers' = [callers EXCEPT ![c].pc = "returned"]
    /\ UNCHANGED <<chain, config, contract, bindings, store, apiHits, req, call, prev,
                   conn, sessionVars>>

\* the call has returned to its caller
CallerReturns(c) ==
    /\ callers[c].pc = "returned"
    /\ callers' = [callers EXCEPT ![c] = IdleCaller]
    /\ UNCHANGED <<chain, config, contract, bindings, store, apiHits, req, call, prev,
                   conn, sessionVars>>

BindingNext ==
    \/ \E c \in Callers : CallerGetsContract(c)
    \/ \E c \in Callers : CallerSettles(c)
    \/ \E c \in Callers : CallerReturns(c)

----------------------------------------------------------------------------
(* A remembered CSRF verdict *)

NoPrev == [set |-> FALSE, method |-> "", cookieToken |-> Null, headerToken |-> Null,
           token |-> NoToken, passed |-> FALSE]

\* the request in flight has been through verifyCsrfToken
CsrfDecided(r) ==
    \/ r.pc = "handler"
    \/ r.pc = "done" /\ r.error \in {"CSRF token missing", "CSRF token mismatch"}

\* the verdict verifyCsrfToken gave the request in flight is kept for
\* comparison with the verdicts of later requests
Remember ==
    /\ CsrfDecided(req)
    /\ prev' = [set |-> TRUE, method |-> req.method, cookieToken |-> req.cookieToken,
                headerToken |-> req.headerToken, token |-> req.token,
                passed |-> req.pc = "handler"]
    /\ UNCHANGED <<chain, config, contract, bindings, store, apiHits, req, call, callers,
                   conn, sessionVars>>

----------------------------------------------------------------------------
(* Specification of the server *)

\* the arguments and the outcome of a direct call of verifyCsrfToken
NoCsrfCall == [method |-> "", cookieToken |-> Null, headerToken |-> Null, outcome |-> ""]

NoCall == [fn |-> "none", projectId |-> "", walletAddress |-> Null, bound |-> FALSE,
           rpcOk |-> FALSE, projectOwner |-> Null, returned |-> Null, verdict |-> FALSE,
           csrf |-> NoCsrfCall]

Init ==
    /\ chain \in [ChainIds -> ChainOwners]
    /\ config \in [rpcUrl : BOOLEAN, contractAddress : BOOLEAN]
    /\ contract = FALSE
    /\ store = [id \in ProjectIds |-> NoRecord]
    /\ apiHits = 0
    /\ req = Idle
    /\ call = NoCall
    /\ now = 0
    /\ env = DefaultEnv
    /\ authHits = 0
    /\ rpcHits = [server \in Servers |-> 0]
    /\ jar = NoToken
    /\ web = IdleWeb
    /\ csrfJar = NoCookie
    /\ bindings = 0
    /\ callers = [c \in Callers |-> IdleCaller]
    /\ prev = NoPrev
    /\ conn = IdleConn("singleFlight")

Next ==
    \/ \E token \in Tokens : Arrive(token)
    \/ ApiLimiter
    \/ WindowElapses
    \/ AuthenticateJWT
    \/ \E cookieToken \in CsrfValues, headerToken \in CsrfValues :
          VerifyCsrfToken(cookieToken, headerToken)
    \/ \E id \in ProjectIds, body \in Bodies : Handler(id, body)
    \/ \E rpcOk \in BOOLEAN : ExistsRead(rpcOk)
    \/ \E rpcOk \in BOOLEAN : OwnerRead(rpcOk)
    \/ \E dbOk \in BOOLEAN : Upsert(dbOk)
    \/ \E n \in ChainIds, owner \in ChainOwners : Transfer(n, owner)

Spec == Init /\ [][Next]_vars

\* the server's own steps are taken when they can be, and the database driver
\* answers or times out (connectTimeoutMS, socketTimeoutMS of the connection);
\* the two chain reads are awaited without a timeout, so nothing makes them
\* settle when the RPC endpoint never answers
Fairness ==
    /\ WF_vars(ApiLimiter)
    /\ WF_vars(AuthenticateJWT)
    /\ WF_vars(\E cookieToken \in CsrfValues, headerToken \in CsrfValues :
                  VerifyCsrfToken(cookieToken, headerToken))
    /\ WF_vars(\E id \in ProjectIds, body \in Bodies : Handler(id, body))
    /\ WF_vars(\E dbOk \in BOOLEAN : Upsert(dbOk))

LiveSpec == Spec /\ Fairness

----------------------------------------------------------------------------
(* Specification of the verifier: its exported functions called directly,  *)
(* on any arguments and with any outcome of the contract call              *)

\* wallet addresses a caller may pass: absent, empty, zero, not an address,
\* and a wallet in every spelling
WalletInputs ==
    {Null, <<>>, ZERO_ADDRESS, <<"g", "0">>, WalletA, <<"A", "b">>, <<"a", "B">>,
     <<"A", "B">>, WalletB}

CallIds == ProjectIds \cup {""}

CallVerifyProjectOwner(projectId, walletAddress, rpcOk, projectOwner) ==
    /\ call.fn = "none"
    /\ call' = [fn |-> "verifyProjectOwner", projectId |-> projectId,
                walletAddress |-> walletAddress, bound |-> getContractOk, csrf |-> NoCsrfCall,
                rpcOk |-> rpcOk, projectOwner |-> projectOwner, returned |-> Null,
                verdict |-> verifyProjectOwner(projectId, walletAddress, rpcOk, projectOwner)]
    /\ contract' = (contract \/ verifyProjectOwnerCalls(projectId, walletAddress))
    /\ bindings' = IF verifyProjectOwnerCalls(projectId, walletAddress) /\ getContractBuilds
                   THEN bindings + 1 ELSE bindings
    /\ UNCHANGED <<chain, config, store, apiHits, req, callers, prev, conn, sessionVars>>

CallGetProjectOwner(projectId, rpcOk, projectOwner) ==
    /\ call.fn = "none"
    /\ call' = [fn |-> "getProjectOwner", projectId |-> projectId,
                walletAddress |-> Null, bound |-> getContractOk, csrf |-> NoCsrfCall,
                rpcOk |-> rpcOk, projectOwner |-> projectOwner,
                returned |-> getProjectOwner(projectId, rpcOk, projectOwner),
                verdict |-> FALSE]
    /\ contract' = (contract \/ getProjectOwnerCalls(projectId))
    /\ bindings' = IF getProjectOwnerCalls(projectId) /\ getContractBuilds
                   THEN bindings + 1 ELSE bindings
    /\ UNCHANGED <<chain, config, store, apiHits, req, callers, prev, conn, sessionVars>>

CallProjectExists(projectId, rpcOk, projectOwner) ==
    /\ call.fn = "none"
    /\ call' = [fn |-> "projectExists", projectId |-> projectId,
                walletAddress |-> Null, bound |-> getContractOk, csrf |-> NoCsrfCall,
                rpcOk |-> rpcOk, projectOwner |-> projectOwner,
                returned |-> getProjectOwner(projectId, rpcOk, projectOwner),
                verdict |-> projectExists(projectId, rpcOk, projectOwner)]
    /\ contract' = (contract \/ getProjectOwnerCalls(projectId))
    /\ bindings' = IF getProjectOwnerCalls(projectId) /\ getContractBuilds
                   THEN bindings + 1 ELSE bindings
    /\ UNCHANGED <<chain, config, store, apiHits, req, callers, prev, conn, sessionVars>>

\* request methods of HTTP
Methods == {"GET", "HEAD", "OPTIONS", "POST", "PUT", "PATCH", "DELETE"}

\* verifyCsrfToken run on a request of any method with any cookie and header
CallVerifyCsrfToken(method, cookieToken, headerToken) ==
    /\ call.fn = "none"
    /\ call' = [NoCall EXCEPT
                   !.fn = "verifyCsrfToken",
                   !.csrf = [method |-> method, cookieToken |-> cookieToken,
                             headerToken |-> headerToken,
                             outcome |-> verifyCsrfToken(method, cookieToken, headerToken)]]
    /\ UNCHANGED <<chain, config, contract, bindings, store, apiHits, req, callers, prev, conn, sessionVars>>

\* the caller has taken the result; the binding stays cached for the next call
CallReturns ==
    /\ call.fn # "none"
    /\ call' = NoCall
    /\ UNCHANGED <<chain, config, contract, bindings, store, apiHits, req, callers, prev, conn, sessionVars>>

\* project ids of direct calls of the metadata model
StoredIds == {"1", "2"}

\* owner addresses the callers of the model pass, in several spellings
StoredOwners == {WalletA, <<"A", "b">>, WalletB, <<"B", "A">>}

\* ProjectMetadataModel.upsert(projectId, ownerAddress, data) called directly
CallUpsert(projectId, ownerAddress) ==
    /\ call.fn = "none"
    /\ call' = [NoCall EXCEPT !.fn = "upsert", !.projectId = projectId,
                              !.walletAddress = ownerAddress]
    /\ store' = [store EXCEPT ![projectId] = upsert(@, ownerAddress, now)]
    /\ UNCHANGED <<chain, config, contract, bindings, apiHits, req, callers, prev, conn,
                   sessionVars>>

\* ProjectMetadataModel.delete(projectId) called directly; it returns whether
\* a document was deleted
CallDelete(projectId) ==
    /\ call.fn = "none"
    /\ call' = [NoCall EXCEPT !.fn = "delete", !.projectId = projectId,
                              !.verdict = store[projectId].present]
    /\ store' = [store EXCEPT ![projectId] = delete(@)]
    /\ UNCHANGED <<chain, config, contract, bindings, apiHits, req, callers, prev, conn,
                   sessionVars>>

NextVerifier ==
    \/ CallReturns
    \/ \E projectId \in CallIds, walletAddress \in WalletInputs, rpcOk \in BOOLEAN,
          projectOwner \in RawOwners :
          CallVerifyProjectOwner(projectId, walletAddress, rpcOk, projectOwner)
    \/ \E projectId \in CallIds, rpcOk \in BOOLEAN, projectOwner \in RawOwners :
          CallGetProjectOwner(projectId, rpcOk, projectOwner)
    \/ \E projectId \in CallIds, rpcOk \in BOOLEAN, projectOwner \in RawOwners :
          CallProjectExists(projectId, rpcOk, projectOwner)
    \/ \E method \in Methods, cookieToken \in CsrfValues, headerToken \in CsrfValues :
          CallVerifyCsrfToken(method, cookieToken, headerToken)

VerifierSpec == Init /\ [][NextVerifier]_vars

----------------------------------------------------------------------------
(* Specification of the session routes: login, introspection and the       *)
(* challenge message, with the session gate of the metadata mutation; one  *)
(* request is served at a time                                             *)

\* the chain holds no project and the chain configuration is complete; the
\* environment is any the server starts with
AuthInit ==
    /\ chain = [n \in ChainIds |-> ZERO_ADDRESS]
    /\ config = [rpcUrl |-> TRUE, contractAddress |-> TRUE]
    /\ contract = FALSE
    /\ store = [id \in ProjectIds |-> NoRecord]
    /\ apiHits = 0
    /\ req = Idle
    /\ call = NoCall
    /\ now = 0
    /\ env \in Envs
    /\ authHits = 0
    /\ rpcHits = [server \in Servers |-> 0]
    /\ jar = NoToken
    /\ web = IdleWeb
    /\ csrfJar = NoCookie
    /\ bindings = 0
    /\ callers = [c \in Callers |-> IdleCaller]
    /\ prev = NoPrev
    /\ conn = IdleConn("singleFlight")

\* auth_token cookies a client may send: none, one that is no token of the
\* server, and the one it holds
Presented == {NoToken, BadToken, jar}

AuthNext ==
    \/ \E route \in AuthRoutes :
          req.pc = "idle" /\ ArriveWeb("main", route, RouteMethod[route])
    \/ \E cookieToken \in {Null, <<>>, csrfJar.value}, minted \in MintValues :
          EnsureCsrfToken(cookieToken, minted)
    \/ AuthLimiter
    \/ VerifyLimiter
    \/ Logout
    \/ AuthWindowElapses
    \/ \E body \in LoginBodies, minted \in MintValues : Verify(body, minted)
    \/ \E token \in Presented : Me(token)
    \/ Message
    \/ Tick
    \/ ResponseTaken
    \/ \E token \in Presented : web.pc = "idle" /\ Arrive(token)
    \/ ApiLimiter
    \/ WindowElapses
    \/ AuthenticateJWT
    \/ \E code \in ChainStatuses : RestOfChain(code)
    \/ MutationResponseTaken

AuthSpec == AuthInit /\ [][AuthNext]_vars

----------------------------------------------------------------------------
(* Specification of the RPC passthrough on the main server and on the      *)
(* isolated RPC server                                                     *)

RpcNext ==
    \/ \E server \in Servers, method \in {"POST", "GET"} :
          ArriveWeb(server, "rpc", method)
    \/ \E cookieToken \in {Null, <<"t">>}, minted \in MintValues :
          EnsureCsrfToken(cookieToken, minted)
    \/ RpcRoutes
    \/ RpcLimiter
    \/ \E server \in Servers : RpcWindowElapses(server)
    \/ \E upstream \in UpstreamStatuses \cup {0} : Fetch(upstream)
    \/ NotFound

RpcSpec == Init /\ [][RpcNext]_vars

----------------------------------------------------------------------------
(* Specification of concurrent first access to the contract binding: calls *)
(* of the exported functions interleave at their awaits                    *)

BindingSpec == Init /\ [][BindingNext]_vars

----------------------------------------------------------------------------
(* Specification of the CSRF verdicts of the metadata mutation over time:  *)
(* mutations with any session, cookie and header, between requests that    *)
(* make the server mint CSRF tokens                                        *)

\* the server of AuthSpec, started in the development environment
CsrfInit == AuthInit /\ env = DefaultEnv

CsrfNext ==
    \/ \E token \in Tokens : web.pc = "idle" /\ Arrive(token)
    \/ ApiLimiter
    \/ WindowElapses
    \/ AuthenticateJWT
    \/ \E cookieToken \in CsrfValues, headerToken \in CsrfValues :
          VerifyCsrfToken(cookieToken, headerToken)
    \/ Remember
    \/ Handler("x", [ownerAddress |-> Null, fieldsValid |-> TRUE])
    \/ MutationResponseTaken
    \/ req.pc = "idle" /\ ArriveWeb("main", "message", "GET")
    \/ \E minted \in MintValues : EnsureCsrfToken(Null, minted)
    \/ AuthLimiter
    \/ AuthWindowElapses
    \/ Message
    \/ ResponseTaken

CsrfSpec == CsrfInit /\ [][CsrfNext]_vars

----------------------------------------------------------------------------
(* Specifications of the database connection: concurrent calls of          *)
(* connectDatabase, as the two start-up callers make them, and the same    *)
(* with closeDatabase                                                      *)

\* the server of CsrfSpec with either file as config/database.ts
DatabaseInit ==
    /\ chain = [n \in ChainIds |-> ZERO_ADDRESS]
    /\ config = [rpcUrl |-> TRUE, contractAddress |-> TRUE]
    /\ contract = FALSE
    /\ store = [id \in ProjectIds |-> NoRecord]
    /\ apiHits = 0
    /\ req = Idle
    /\ call = NoCall
    /\ now = 0
    /\ env = DefaultEnv
    /\ authHits = 0
    /\ rpcHits = [server \in Servers |-> 0]
    /\ jar = NoToken
    /\ web = IdleWeb
    /\ csrfJar = NoCookie
    /\ bindings = 0
    /\ callers = [c \in Callers |-> IdleCaller]
    /\ prev = NoPrev
    /\ conn \in {IdleConn(variant) : variant \in Variants}

ConnectNext ==
    \/ \E p \in Procs : ConnectDatabase(p)
    \/ \E a \in Attempts, ok \in BOOLEAN : ConnectSettles(a, ok)
    \/ \E p \in Procs : ConnectReturns(p)
    \/ \E p \in Procs : ProcDone(p)

ConnectSpec == DatabaseInit /\ [][ConnectNext]_vars

DatabaseNext ==
    \/ \E p \in Procs : ConnectDatabase(p)
    \/ \E a \in Attempts, ok \in BOOLEAN : ConnectSettles(a, ok)
    \/ \E p \in Procs : ConnectReturns(p)
    \/ \E p \in Procs : ProcDone(p)
    \/ CloseDatabase
    \/ \E ok \in BOOLEAN : CloseSettles(ok)

DatabaseSpec == DatabaseInit /\ [][DatabaseNext]_vars

----------------------------------------------------------------------------
(* Specification of the metadata store: upserts and deletes of the model,  *)
(* one after another, as the clock advances                                *)

StoreNext ==
    \/ \E projectId \in StoredIds, ownerAddress \in StoredOwners :
          CallUpsert(projectId, ownerAddress)
    \/ \E projectId \in StoredIds : CallDelete(projectId)
    \/ CallReturns
    \/ Tick

StoreSpec == CsrfInit /\ [][StoreNext]_vars

----------------------------------------------------------------------------
(* Properties *)

\* two addresses are the same up to the case of their letters
SameAddress(a, b) ==
    /\ Len(a) = Len(b)
    /\ \A i \in DOMAIN a :
          a[i] = b[i] \/ {a[i], b[i]} \in {{"a", "A"}, {"b", "B"}}

\* the request has been through the ownership gate of the handler
OwnershipChecked(r) == r.reads = 2 /\ r.pc \in {"upsert", "done"}

\* the request's ownership read returned a valid owner that is the session address
OwnerReadMatches(r) ==
    /\ r.token.kind = "valid"
    /\ r.rpcOk
    /\ isAddress(r.projectOwner)
    /\ SameAddress(r.projectOwner, r.token.address)

\* C1: the store is written only by a request whose own ownership read returned
\* a valid owner equal, case-insensitively, to the address of its verified
\* session token, and the record written carries that session address.
C1_UpsertOnlyByVerifiedOwner ==
    [][(store' # store \/ (req'.wrote /\ ~req.wrote)) =>
          /\ req.pc = "upsert"
          /\ OwnerReadMatches(req)
          /\ store'[req.id].present
          /\ store'[req.id].ownerAddress = req.token.address
          /\ \A id \in ProjectIds \ {req.id} : store'[id] = store[id]]_vars

\* C1 witness: a write for an owner the contract returned in another spelling
C1_Witness ==
    /\ req.wrote
    /\ store[req.id].ownerAddress = req.token.address
    /\ req.projectOwner # req.token.address

\* C2: the verdict of the ownership gate is a function of the session address
\* and the owner the contract returned: it is the same for every body the
\* request could carry, and a write needs the matching on-chain owner whatever
\* ownerAddress the body asserts.
C2_VerdictIgnoresBody ==
    OwnershipChecked(req) =>
        /\ (req.status = 403) <=> ~OwnerReadMatches(req)
        /\ \A body \in Bodies :
              OwnershipGate(req.user, body.ownerAddress, req.isOwner)
                  = OwnershipGate(req.user, req.ownerAddress, req.isOwner)
        /\ req.wrote => OwnerReadMatches(req)

\* C2 witness: a caller who is not the owner asserts its own address as
\* ownerAddress and is refused
C2_Witness ==
    /\ OwnershipChecked(req)
    /\ req.status = 403
    /\ req.ownerAddress = req.token.address
    /\ req.rpcOk
    /\ ~SameAddress(req.projectOwner, req.token.address)

\* C3: the gates are evaluated in the order session token, CSRF, rate limit,
\* project-exists, caller-is-owner, write: a request without a valid session is
\* answered 401 whatever else is wrong with it, a request answered 429 has
\* passed the session and CSRF checks, and a write follows a passed ownership
\* check.
C3_GateOrder ==
    req.pc = "done" =>
        /\ req.token.kind # "valid" => req.status = 401
        /\ req.status = 429 => req.user # Null
        /\ req.wrote => req.isOwner /\ req.reads = 2

\* C4: a metadata mutation that reaches a chain read or the write has consumed
\* one unit of the wallet-mutation (metadata) rate-limit policy.
C4_WalletLimitConsumed ==
    (req.reads > 0 \/ req.wrote) => "metadata" \in req.consumed

\* C5: the verdict of every ownership check is that of the contract's owner at
\* the time of the check: when the ownership read of a request answers, a caller
\* who is not the current owner gets 403 and the current owner passes the gate,
\* whatever earlier requests were allowed.
C5_FreshOwnershipRead ==
    [][(req.pc = "ownerRead" /\ req'.pc # "ownerRead" /\ req'.rpcOk) =>
          LET current == chain[BigInt(req.id)]
          IN /\ ~SameAddress(current, req.user) =>
                   req'.pc = "done" /\ req'.status = 403
             /\ SameAddress(current, req.user) =>
                   /\ req'.status # 403
                   /\ req.fieldsValid => req'.pc = "upsert"]_vars

\* C5 witness: wallet A wrote the record of project 1 earlier, the contract now
\* names wallet B, and a mutation by A has been refused with 403
C5_Witness ==
    /\ store["1"].ownerAddress = WalletA
    /\ chain[1] = getAddress(WalletB)
    /\ req.id = "1"
    /\ req.user = WalletA
    /\ OwnershipChecked(req)
    /\ req.status = 403

\* C6: verifyProjectOwner returns false whenever the owner read is null or the
\* zero address, for every supplied address.
C6_FalseForNullOrZeroOwner ==
    (/\ call.fn = "verifyProjectOwner"
     /\ (~call.rpcOk \/ Falsy(call.projectOwner) \/ call.projectOwner = ZERO_ADDRESS))
        => call.verdict = FALSE

\* the request has been through the existence check of the handler
ExistsChecked(r) ==
    /\ r.handled
    /\ r.pc # "existsRead"
    /\ r.reads >= 1 \/ r.status = 404

\* C7: the existence check passes exactly when the owner returned by
\* getProjectOwner is a non-null, non-zero address; otherwise the mutation is
\* answered 404 and never writes.
C7_ExistsIffNonZeroOwner ==
    ExistsChecked(req) =>
        ((req.pc = "done" /\ req.status = 404 /\ ~req.wrote /\ req.reads <= 1)
            <=> (req.existsOwner = Null \/ req.existsOwner = ZERO_ADDRESS))

\* C7 witness: the owner read returned the zero address and the answer is 404
C7_Witness ==
    /\ req.pc = "done"
    /\ req.status = 404
    /\ req.reads = 1
    /\ req.existsOwner = ZERO_ADDRESS

\* every spelling of s that differs from it in the case of letters only
Spellings(s) == {t \in [DOMAIN s -> HexChars \cup {"g"}] : SameAddress(t, s)}

\* C8: verifyProjectOwner is true only when the contract read succeeded and the
\* owner equals the address up to case; it is false on empty inputs, an id that
\* is no integer, a binding or RPC failure and a missing or malformed owner;
\* every spelling of the address, and every valid spelling of the owner,
\* gives the same verdict.
C8_FailClosedCaseInsensitive ==
    call.fn = "verifyProjectOwner" =>
        /\ call.verdict <=>
              /\ call.projectId # "" /\ ~Falsy(call.walletAddress)
              /\ BigIntOk(call.projectId)
              /\ call.bound
              /\ call.rpcOk
              /\ isAddress(call.projectOwner)
              /\ SameAddress(call.projectOwner, call.walletAddress)
        /\ \A w \in Spellings(call.walletAddress) :
              verifyProjectOwner(call.projectId, w, call.rpcOk, call.projectOwner)
                  = call.verdict
        /\ isAddress(call.projectOwner) =>
              \A o \in {t \in Spellings(call.projectOwner) : isAddress(t)} :
                  verifyProjectOwner(call.projectId, call.walletAddress, call.rpcOk, o)
                      = call.verdict

\* C8 witness: a true verdict for an address and an owner in different spellings
C8_Witness ==
    /\ call.fn = "verifyProjectOwner"
    /\ call.verdict
    /\ call.walletAddress # call.projectOwner
    /\ call.walletAddress # toLowerCase(call.walletAddress)

\* C9: getProjectOwner returns null for an empty or non-integer id, a failed
\* call, a missing or invalid owner and the zero address, and otherwise the
\* owner lower-cased.
C9_NullOrLowerCasedOwner ==
    call.fn = "getProjectOwner" =>
        call.returned =
            IF \/ call.projectId = "" \/ ~BigIntOk(call.projectId)
               \/ ~call.bound \/ ~call.rpcOk
               \/ Falsy(call.projectOwner) \/ ~isAddress(call.projectOwner)
               \/ call.projectOwner = ZERO_ADDRESS
            THEN Null
            ELSE toLowerCase(call.projectOwner)

\* the request has been through verifyCsrfToken
CsrfChecked(r) == r.user # Null /\ r.pc # "verifyCsrfToken"

\* C10: the CSRF check of a state-changing request passes exactly when cookie
\* and header token are both non-empty and identical; an absent or empty token
\* ends the request with 403 'CSRF token missing', two different tokens with
\* 403 'CSRF token mismatch', and the handler is not invoked in either case.
C10_CsrfExactMatch ==
    CsrfChecked(req) =>
        LET absent == Falsy(req.cookieToken) \/ Falsy(req.headerToken)
            refused == /\ req.pc = "done" /\ req.status = 403
                       /\ ~req.handled /\ req.reads = 0 /\ ~req.wrote
            passed == req.pc = "handler" \/ req.handled
        IN /\ (~absent /\ req.cookieToken = req.headerToken) <=> passed
           /\ absent => refused /\ req.error = "CSRF token missing"
           /\ (~absent /\ req.cookieToken # req.headerToken) =>
                 refused /\ req.error = "CSRF token mismatch"

\* C10 witness: tokens that differ in the case of one letter are refused
C10_Witness ==
    /\ CsrfChecked(req)
    /\ req.cookieToken = <<"t">>
    /\ req.headerToken = <<"T">>
    /\ req.error = "CSRF token mismatch"

\* the Set-Cookie headers of a response that carry the named cookie
CookiesNamed(cookies, name) == {i \in DOMAIN cookies : cookies[i].name = name}

\* the units of the auth quota the request has consumed
Units(w) == Cardinality({i \in DOMAIN w.trace : w.trace[i] = "authLimiter"})

\* the methods the CSRF check leaves alone
SafeMethods == {"GET", "HEAD", "OPTIONS"}

\* C11: verifyCsrfToken lets a GET, HEAD or OPTIONS request pass whatever
\* cookie and header it carries, and checks a request of every other method:
\* that one passes exactly when both tokens are present and equal.
C11_CsrfOnlyForUnsafeMethods ==
    call.fn = "verifyCsrfToken" =>
        IF call.csrf.method \in SafeMethods
        THEN call.csrf.outcome = "next"
        ELSE call.csrf.outcome = "next" <=>
                /\ ~Falsy(call.csrf.cookieToken)
                /\ call.csrf.cookieToken = call.csrf.headerToken

\* C11 witness: an OPTIONS request with a cookie and a different header passes
C11_Witness ==
    /\ call.fn = "verifyCsrfToken"
    /\ call.csrf.method = "OPTIONS"
    /\ call.csrf.cookieToken = <<"t">>
    /\ call.csrf.headerToken = <<"T">>
    /\ call.csrf.outcome = "next"

\* an allow-list is configured: WALLET_WHITELIST names at least one address
ListConfigured ==
    \E i \in DOMAIN env.WALLET_WHITELIST : trim(env.WALLET_WHITELIST[i]) # <<>>

\* the address is on the allow-list, up to the case of its letters
Listed(a) ==
    \E i \in DOMAIN env.WALLET_WHITELIST : SameAddress(trim(env.WALLET_WHITELIST[i]), a)

\* the allow-list check lets the address in
Admitted(a) == ~ListConfigured \/ Listed(a)

\* the signature of a login body was made by the address the body claims
SignedByClaimed(b) ==
    b.signature.kind = "signed" /\ SameAddress(b.signature.signer, b.address)

\* the login body lacks one of address, signature and message
FieldMissing(b) == Falsy(b.address) \/ b.signature.kind = "missing" \/ b.message = ""

\* the login request is answered, or a request on another route is
LoginDone == web.route = "verify" /\ web.pc = "done"

\* the response of the request sets the session cookie or a token was made
TokenIssued == web.issued # NoToken \/ CookiesNamed(web.setCookies, "auth_token") # {}

\* position of the first and of the last run of a step in the trace (0: never)
FirstRun(w, step) ==
    IF \E i \in DOMAIN w.trace : w.trace[i] = step
    THEN CHOOSE i \in DOMAIN w.trace :
            w.trace[i] = step /\ \A j \in DOMAIN w.trace : w.trace[j] = step => i <= j
    ELSE 0

LastRun(w, step) ==
    IF \E i \in DOMAIN w.trace : w.trace[i] = step
    THEN CHOOSE i \in DOMAIN w.trace :
            w.trace[i] = step /\ \A j \in DOMAIN w.trace : w.trace[j] = step => j <= i
    ELSE 0

\* C12: a login issues a token and sets the session cookie only after the
\* rate limit, the signature verification and the allow-list check have
\* passed, in that order; a login that fails a step is answered with that
\* step's error (429, 400, 401), sets no session cookie and issues no token.
C12_LoginOrder ==
    LoginDone =>
        /\ TokenIssued =>
              /\ web.status = 200
              /\ 0 < LastRun(web, "authLimiter")
              /\ LastRun(web, "authLimiter") < FirstRun(web, "verifyWalletSignature")
              /\ FirstRun(web, "verifyWalletSignature") < FirstRun(web, "generateToken")
              /\ SignedByClaimed(web.body)
              /\ Admitted(web.body.address)
        /\ web.status # 200 =>
              /\ web.status \in {429, 400, 401}
              /\ ~TokenIssued
              /\ FirstRun(web, "generateToken") = 0
        /\ web.status = 429 =>
              /\ web.trace[Len(web.trace)] = "authLimiter"
              /\ web.verification = NoVerification
        /\ web.status = 400 => FieldMissing(web.body) /\ web.verification = NoVerification
        /\ web.status = 401 =>
              /\ ~web.verification.isValid
              /\ ~SignedByClaimed(web.body) \/ ~Admitted(web.body.address)
                    \/ web.body.message # ExpectedMessage
                    \/ web.body.signature.message # ExpectedMessage
              /\ web.message = "Address not whitelisted" => SignedByClaimed(web.body)

\* C12 witness: under a configured allow-list a listed wallet logs in
C12_Witness ==
    /\ LoginDone
    /\ ListConfigured
    /\ web.status = 200
    /\ TokenIssued

\* the login body carries a signature of the claimed address over the
\* challenge, sent with the challenge, and the allow-list admits the address
GoodLogin(b) ==
    /\ SignedByClaimed(b)
    /\ b.signature.message = ExpectedMessage
    /\ b.message = ExpectedMessage
    /\ Admitted(b.address)

\* C13: a successful login sets the http-only session cookie with a lifetime
\* of 24 hours and a CSRF cookie scripts can read, and answers 200 with the
\* address and the CSRF token; a body lacking address, signature or message
\* is answered 400; a bad signature or a signer off the allow-list 401.
C13_LoginResponses ==
    (LoginDone /\ FirstRun(web, "handler") > 0) =>
        /\ FieldMissing(web.body) => web.status = 400
        /\ ~FieldMissing(web.body) /\ ~GoodLogin(web.body) => web.status = 401
        /\ ~FieldMissing(web.body) /\ GoodLogin(web.body) => web.status = 200
        /\ web.status = 200 =>
              /\ \E i \in DOMAIN web.setCookies :
                    /\ web.setCookies[i].name = "auth_token"
                    /\ web.setCookies[i].value = web.issued
                    /\ web.setCookies[i].httpOnly
                    /\ web.setCookies[i].maxAge = 86400000
              /\ \A i \in CookiesNamed(web.setCookies, "auth_token") :
                    web.setCookies[i].httpOnly
              /\ \E i \in DOMAIN web.setCookies :
                    /\ web.setCookies[i].name = "csrf_token"
                    /\ ~web.setCookies[i].httpOnly
                    /\ web.setCookies[i].value = web.data.csrfToken
              /\ SameAddress(web.data.address, web.body.address)
              /\ ~Falsy(web.data.csrfToken)

\* C13 witness: a login by a client that already held a CSRF cookie succeeds
\* with exactly the two cookies
C13_Witness ==
    /\ LoginDone
    /\ web.status = 200
    /\ ~Falsy(web.cookieToken)
    /\ Len(web.setCookies) = 2

\* C14: a login succeeds only on a signature the claimed address made over
\* the challenge the server serves; a signature over another message never
\* verifies, whatever message the body carries.
C14_SignatureOverChallenge ==
    LoginDone =>
        /\ (web.verification.isValid \/ TokenIssued \/ web.status = 200) =>
              /\ SignedByClaimed(web.body)
              /\ web.body.signature.message = getExpectedMessage
        /\ (web.body.signature.kind = "signed"
              /\ web.body.signature.message # getExpectedMessage) =>
              /\ ~web.verification.isValid
              /\ ~TokenIssued
              /\ web.status # 200

\* C14 witness: a signature over another text, sent with that text, is refused
C14_Witness ==
    /\ LoginDone
    /\ web.body.signature = Signature(WalletA, OtherMessage)
    /\ web.body.message = OtherMessage
    /\ web.body.address = WalletA
    /\ web.status = 401

\* C15: under a configured allow-list no token is issued to an address that
\* is not on it, compared without regard to case, even with a valid
\* signature; without a configured allow-list every valid signer is admitted.
C15_Whitelist ==
    LoginDone =>
        /\ (ListConfigured /\ ~Listed(web.body.address)) =>
              ~TokenIssued /\ web.status # 200
        /\ (TokenIssued /\ ListConfigured) => Listed(web.issued.address)
        /\ (~ListConfigured /\ FirstRun(web, "handler") > 0
              /\ SignedByClaimed(web.body)
              /\ web.body.signature.message = ExpectedMessage
              /\ web.body.message = ExpectedMessage) =>
              web.status = 200 /\ TokenIssued

\* C15 witness: a wallet off the configured list signs the challenge and is
\* refused
C15_Witness ==
    /\ LoginDone
    /\ ListConfigured
    /\ SignedByClaimed(web.body)
    /\ web.body.signature.message = ExpectedMessage
    /\ web.body.message = ExpectedMessage
    /\ web.status = 401
    /\ ~TokenIssued

\* C16: while a token issued by a login has not expired, verifying it yields
\* the lower-cased form of the address the login accepted; session
\* introspection answers with that lower-cased address and the metadata
\* mutation takes it as the caller.
C16_TokenRoundTrip ==
    /\ (LoginDone /\ web.status = 200 /\ now < web.issued.expiresAt) =>
          /\ verifyToken(web.issued) # NoClaim
          /\ verifyToken(web.issued).address = toLowerCase(web.body.address)
          /\ jar = web.issued
    /\ (web.route = "me" /\ web.pc = "done" /\ web.status = 200) =>
          /\ web.data.address = web.token.address
          /\ web.data.address = toLowerCase(web.data.address)
    /\ req.user # Null =>
          /\ req.user = req.token.address
          /\ req.user = toLowerCase(req.user)

\* C16 witness: a login that claimed wallet A in upper case, and the token it
\* was issued verifying to the lower-cased address
C16_Witness ==
    /\ LoginDone
    /\ web.status = 200
    /\ web.body.address = <<"A", "B">>
    /\ now < web.issued.expiresAt
    /\ verifyToken(web.issued).address = WalletA

\* C17: a token presented after its expiresAt is rejected by session
\* introspection and by the metadata mutation with 401, one presented before
\* it is accepted; an absent or malformed token is answered 401 and no claim
\* field comes back.
C17_TokenExpiry ==
    [][/\ (web.pc = "me" /\ web'.pc = "done") =>
             /\ (web'.token.kind = "valid" /\ now > web'.token.expiresAt) =>
                   web'.status = 401 /\ web'.data = NoData
             /\ (web'.token.kind = "valid" /\ now < web'.token.expiresAt) =>
                   /\ web'.status = 200
                   /\ web'.data.address = web'.token.address
                   /\ web'.data.expiresAt = web'.token.expiresAt * 1000
             /\ web'.token.kind # "valid" =>
                   web'.status = 401 /\ web'.data = NoData
       /\ (req.pc = "authenticateJWT" /\ req'.pc # "authenticateJWT") =>
             /\ (req.token.kind = "valid" /\ now > req.token.expiresAt) =>
                   req'.pc = "done" /\ req'.status = 401 /\ req'.user = Null
             /\ (req.token.kind = "valid" /\ now < req.token.expiresAt) =>
                   req'.pc = "verifyCsrfToken" /\ req'.user = req.token.address
             /\ req.token.kind # "valid" =>
                   req'.pc = "done" /\ req'.status = 401 /\ req'.user = Null]_vars

\* C17 witness: session introspection refuses a token the server issued
C17_Witness ==
    /\ web.route = "me"
    /\ web.pc = "done"
    /\ web.token.kind = "valid"
    /\ web.status = 401

\* C18: the login endpoint is limited by a fixed window in which every login
\* request consumes exactly one unit of the auth quota, so that the first N
\* logins of a window are not limited and the next one is answered 429.
C18_OneUnitPerLogin == LoginDone => Units(web) = 1

\* C19: a request to the RPC passthrough is forwarded to the chain endpoint
\* only after it has been counted against the RPC-proxy rate limit and found
\* within the ceiling, on the main server and on the isolated RPC server.
C19_RpcLimitedBeforeForward ==
    (web.route = "rpc" /\ web.forwarded) =>
        /\ FirstRun(web, "rpcLimiter") > 0
        /\ FirstRun(web, "rpcLimiter") < FirstRun(web, "handler")

\* C20: handling a request to the RPC passthrough sets and clears no cookie
\* and runs no session, CSRF or database logic; its response carries no
\* Set-Cookie, whether or not the request carried cookies.
C20_RpcSetsNoCookie ==
    web.route = "rpc" =>
        /\ web.setCookies = <<>>
        /\ FirstRun(web, "ensureCsrfToken") = 0

\* C21: logging out clears the session cookie and the CSRF cookie with the
\* attributes each was set with, in every environment, so that after a logout
\* the client holds neither cookie.
C21_LogoutClearsBoth ==
    (web.route = "logout" /\ web.pc = "done" /\ web.status = 200) =>
        /\ jar = NoToken
        /\ csrfJar = NoCookie

\* C22: logout always succeeds: every POST to the logout endpoint is answered
\* with success, whatever the session, CSRF and rate-limit state and however
\* many auth requests came before.
C22_LogoutAlwaysSucceeds ==
    (web.route = "logout" /\ web.pc = "done") => web.status = 200

\* C23: at most one RPC client and one contract binding are ever constructed:
\* under any interleaving of concurrent calls of the exported functions,
\* concurrent first access included, every call that obtains a binding obtains
\* the same one.
C23_OneBinding ==
    /\ bindings <= 1
    /\ \A c \in Callers, d \in Callers :
          (callers[c].binding > 0 /\ callers[d].binding > 0) =>
              callers[c].binding = callers[d].binding

\* C23 witness: two calls are at their awaits at once, both with the binding
\* the first of them constructed
C23_Witness ==
    \E c \in Callers, d \in Callers :
        /\ c # d
        /\ callers[c].pc = "await" /\ callers[d].pc = "await"
        /\ callers[c].binding = 1 /\ callers[d].binding = 1

\* C24: a missing RPC endpoint or contract address is a fatal configuration
\* error raised when the binding is constructed; it is not reported to callers
\* as an ordinary negative ownership result, so a mutation of a numbered
\* project on a server without the chain configuration is not answered 404 or
\* 403.
C24_MisconfigurationIsFatal ==
    (req.pc = "done" /\ req.handled /\ BigInt(req.id) \in ChainIds /\ ~getContractOk) =>
        req.status \notin {403, 404}

\* C25: a chain read cannot hang forever: when the RPC endpoint never answers,
\* the read is cut off after a bounded timeout and converted to null/false, so
\* every privileged mutation that has issued a chain read eventually receives
\* its response.
C25_ChainReadAnswered ==
    (req.pc \in {"existsRead", "ownerRead"}) ~> (req.pc = "done")

\* C26: on an upstream failure the client receives a 500 with a fixed generic
\* message; no text derived from the internal error appears in the response,
\* for the RPC passthrough as for the metadata routes. The body of a 500 has
\* no field filled from the message of the caught error.
C26_GenericUpstreamError ==
    (web.pc = "done" /\ web.status = 500) => web.message = ""

C28_FailureWritesNothing ==
    [][/\ store' # store =>
            (req.pc = "upsert" /\ req'.pc = "done" /\ req'.status = 200)
       /\ (req'.pc = "done" /\ req'.status # 200) =>
            (store' = store /\ ~req'.wrote)]_vars

\* C28 witness: after a write for one project, a mutation of another project
\* has come as far as the upsert and ended with 500, and that project has no
\* record
C28_Witness ==
    /\ req.pc = "done"
    /\ req.status = 500
    /\ ~store[req.id].present
    /\ \E id \in ProjectIds : store[id].present

\* C29: the response to a successful login sets exactly one CSRF cookie value,
\* and the csrfToken of its body equals the CSRF cookie value the client holds
\* afterwards, also when the login arrived without a CSRF cookie and the
\* global middleware minted one first.
C29_OneCsrfValueAtLogin ==
    (LoginDone /\ web.status = 200) =>
        /\ Cardinality({web.setCookies[i].value :
                           i \in CookiesNamed(web.setCookies, "csrf_token")}) = 1
        /\ web.data.csrfToken = csrfJar.value

\* C30: the CSRF verdict is a function of the request's method, cookie token
\* and header token only: two requests with the same three get the same
\* verdict, whatever session token each carries and whichever tokens the
\* server has minted before.
C30_VerdictOfTriple ==
    (/\ prev.set
     /\ CsrfDecided(req)
     /\ req.method = prev.method
     /\ req.cookieToken = prev.cookieToken
     /\ req.headerToken = prev.headerToken) =>
        (req.pc = "handler") = prev.passed

\* C30 witness: two mutations of different sessions have passed the check with
\* the same cookie and header, the later one after the server minted a token
\* that is neither
C30_Witness ==
    /\ prev.set
    /\ prev.passed
    /\ req.pc = "handler"
    /\ req.method = prev.method
    /\ req.cookieToken = prev.cookieToken
    /\ req.headerToken = prev.headerToken
    /\ req.token # prev.token
    /\ ~Falsy(csrfJar.value)
    /\ csrfJar.value # req.cookieToken

\* connection attempts whose connect has not settled
InProgress == {a \in Attempts : conn.attempts[a] = "connecting"}

\* C31: connecting to the database is single-flight: under any interleaving
\* of concurrent connectDatabase calls at most one connection attempt is in
\* progress at a time and no client is constructed while another is
\* connecting or connected, callers that wait during an attempt wait for that
\* attempt, and all callers served by a successful attempt hold the same
\* database handle.
C31_SingleFlight ==
    /\ Cardinality(InProgress) <= 1
    /\ Cardinality({a \in Attempts : conn.clients[a] \in {"new", "connected"}}) <= 1
    /\ \A p \in Procs, q \in Procs :
          (conn.procs[p].pc = "waiting" /\ conn.procs[q].pc = "waiting"
             /\ conn.procs[p].attempt \in InProgress
             /\ conn.procs[q].attempt \in InProgress) =>
              conn.procs[p].attempt = conn.procs[q].attempt
    /\ \A p \in Procs, q \in Procs :
          (conn.procs[p].pc = "got" /\ conn.procs[q].pc = "got") =>
              conn.procs[p].handle = conn.procs[q].handle

\* C32: in every state reachable by interleaving connectDatabase and
\* closeDatabase of the file with connectionPromise, a database handle comes
\* with the client it was obtained from, the failure of an older attempt
\* leaves the state of a newer attempt alone, and a client whose connect
\* succeeded is referenced by the module: none is left connected and
\* unreferenced.
C32_HandleHasClient ==
    /\ [](conn.variant = "singleFlight" =>
            /\ conn.db # 0 => conn.client = conn.db
            /\ \A a \in Attempts : conn.clients[a] = "connected" => conn.client = a)
    /\ [][\A a \in Attempts :
            (/\ conn.variant = "singleFlight"
             /\ conn.attempts[a] = "connecting" /\ conn'.attempts[a] = "failed"
             /\ conn.connectionPromise # a) =>
                /\ conn'.connectionPromise = conn.connectionPromise
                /\ conn'.client = conn.client
                /\ conn'.db = conn.db]_vars

C34_StampsOfRecord ==
    /\ [](\A id \in ProjectIds :
            store[id].present => store[id].createdAt <= store[id].lastUpdated)
    /\ [][\A id \in ProjectIds :
            IF call.fn = "none" /\ call'.fn = "upsert" /\ call'.projectId = id
            THEN /\ store'[id].present
                 /\ store'[id].ownerAddress = toLowerCase(call'.walletAddress)
                 /\ store'[id].lastUpdated = now
                 /\ store'[id].createdAt =
                        IF store[id].present THEN store[id].createdAt ELSE now
            ELSE IF call.fn = "none" /\ call'.fn = "delete" /\ call'.projectId = id
            THEN ~store'[id].present
            ELSE store'[id] = store[id]]_vars

\* C34 witness: a record inserted at the first tick has been updated at the
\* second by an upsert with an upper-case address: createdAt stays,
\* ownerAddress is the lower-cased address and lastUpdated the time of it
C34_Witness ==
    /\ call.fn = "upsert"
    /\ call.projectId = "1"
    /\ call.walletAddress = <<"B", "A">>
    /\ now = 2
    /\ store["1"].present
    /\ store["1"].ownerAddress = WalletB
    /\ store["1"].createdAt = 1
    /\ store["1"].lastUpdated = 2

====
